---- MODULE Spec2Model ----
(***************************************************************************)
(* Model of pyods (src/pyods/cli.py): a recursive open-directory scraper.  *)
(*                                                                         *)
(* Strings (URLs, hrefs, local paths, glob patterns) are sequences of     *)
(* tokens.  A token stands for a run of characters that is never split:   *)
(*   "H"    the scheme and authority "http://h"                            *)
(*   "/" "." "?" "#" "*"   the characters themselves                       *)
(*   "%2e"  a percent-encoded dot, "%2f" a percent-encoded slash           *)
(*   "d" "s" "a" "b" "m" "x" "o" "2" "f"   name characters                 *)
(* so that str.startswith, slicing and concatenation are the sequence     *)
(* operations, and "d" is a proper string prefix of "d2".                  *)
(*                                                                         *)
(* Threads.  scrape_url runs on the event loop thread; stream_url and      *)
(* stream_to_file run on the worker threads of one ThreadPoolExecutor,     *)
(* which main() also installs as the loop's default executor.  The         *)
(* asyncio.Semaphore is released from the worker threads: release() is an  *)
(* unsynchronised read and write of _value, and completing the waiter's    *)
(* future off the loop thread either schedules its callback or is refused  *)
(* by the loop (set_debug(True)), in which case release() raises and the   *)
(* coroutine is never resumed.  The sweep of options.futures is one step:  *)
(* done() only ever turns true, so reading the flags one by one gives no   *)
(* result that reading them at once cannot give.                           *)
(*                                                                         *)
(* Sizes are counted in chunks of iter_content.  hrefs starting with "//"  *)
(* and redirects followed inside the HTTP client are not part of the       *)
(* remote directory explored here.                                         *)
(***************************************************************************)
EXTENDS Integers, Sequences, FiniteSets, TLC

(***************************************************************************)
(* String helpers.                                                         *)
(***************************************************************************)

\* str.startswith(prefix)
StartsWith(s, p) == Len(p) <= Len(s) /\ SubSeq(s, 1, Len(p)) = p

\* s[n:]
DropFirst(s, n) == SubSeq(s, n + 1, Len(s))

\* index of the first occurrence of token c in s, 0 when absent
IndexOf(s, c) ==
    IF \E i \in 1..Len(s) : s[i] = c
    THEN CHOOSE i \in 1..Len(s) : s[i] = c /\ \A j \in 1..(i - 1) : s[j] # c
    ELSE 0

\* index of the last occurrence of token c in s, 0 when absent
LastIndexOf(s, c) ==
    IF \E i \in 1..Len(s) : s[i] = c
    THEN CHOOSE i \in 1..Len(s) : s[i] = c /\ \A j \in (i + 1)..Len(s) : s[j] # c
    ELSE 0

\* s.split(c): the sequence of segments between occurrences of c
RECURSIVE Split(_, _)
Split(s, c) ==
    LET i == IndexOf(s, c)
    IN  IF i = 0 THEN <<s>>
        ELSE <<SubSeq(s, 1, i - 1)>> \o Split(DropFirst(s, i), c)

\* c.join(segs)
RECURSIVE Join(_, _)
Join(segs, c) ==
    IF Len(segs) = 0 THEN <<>>
    ELSE IF Len(segs) = 1 THEN segs[1]
    ELSE segs[1] \o <<c>> \o Join(Tail(segs), c)

\* filter(None, segs): drop the empty segments
RECURSIVE DropEmpty(_)
DropEmpty(segs) ==
    IF Len(segs) = 0 THEN <<>>
    ELSE (IF segs[1] = <<>> THEN <<>> ELSE <<segs[1]>>) \o DropEmpty(Tail(segs))

DotDot == <<".", ".">>
Dot == <<".">>

(***************************************************************************)
(* urllib.parse as used by cli.py.                                         *)
(***************************************************************************)

Authorities == {"H", "G"}

\* urlsplit: authority, path, query, fragment
urlsplit(u) ==
    LET hasloc == Len(u) > 0 /\ u[1] \in Authorities
        rest   == IF hasloc THEN Tail(u) ELSE u
        h      == IndexOf(rest, "#")
        nofrag == IF h = 0 THEN rest ELSE SubSeq(rest, 1, h - 1)
        q      == IndexOf(nofrag, "?")
    IN  [netloc   |-> IF hasloc THEN u[1] ELSE "",
         path     |-> IF q = 0 THEN nofrag ELSE SubSeq(nofrag, 1, q - 1),
         query    |-> IF q = 0 THEN <<>> ELSE DropFirst(nofrag, q),
         fragment |-> IF h = 0 THEN <<>> ELSE DropFirst(rest, h)]

\* urlunsplit: an empty query or fragment loses its marker, and a relative
\* path behind an authority gains its leading slash
urlunsplit(r) ==
    LET p == IF r.netloc # "" /\ r.path # <<>> /\ r.path[1] # "/"
             THEN <<"/">> \o r.path ELSE r.path
    IN  (IF r.netloc # "" THEN <<r.netloc>> ELSE <<>>)
        \o p
        \o (IF r.query # <<>> THEN <<"?">> \o r.query ELSE <<>>)
        \o (IF r.fragment # <<>> THEN <<"#">> \o r.fragment ELSE <<>>)

clean_url(url) == urlunsplit(urlsplit(url))

\* the dot-segment removal loop of urljoin
RECURSIVE ResolveSegments(_, _)
ResolveSegments(segments, resolved) ==
    IF Len(segments) = 0 THEN resolved
    ELSE LET seg == segments[1]
         IN  ResolveSegments(Tail(segments),
                IF seg = DotDot
                THEN (IF Len(resolved) = 0 THEN resolved
                      ELSE SubSeq(resolved, 1, Len(resolved) - 1))
                ELSE IF seg = Dot THEN resolved
                ELSE Append(resolved, seg))

\* bpath.split('/') without its last segment, unless that segment is empty
BaseParts(bsplit) ==
    IF bsplit[Len(bsplit)] # <<>> THEN SubSeq(bsplit, 1, Len(bsplit) - 1) ELSE bsplit

\* segments[1:-1] = filter(None, segments[1:-1])
FilterMiddle(raw) ==
    IF Len(raw) < 3 THEN raw
    ELSE <<raw[1]>> \o DropEmpty(SubSeq(raw, 2, Len(raw) - 1)) \o <<raw[Len(raw)]>>

\* the segments of the merged path
MergeSegments(bpath, path) ==
    IF path[1] = "/" THEN Split(path, "/")
    ELSE FilterMiddle(BaseParts(Split(bpath, "/")) \o Split(path, "/"))

\* a final "." or ".." segment leaves a trailing slash
TrailingDot(segments, resolved) ==
    IF segments[Len(segments)] \in {Dot, DotDot} THEN Append(resolved, <<>>) ELSE resolved

\* '/'.join(resolved_path) or '/'
PathOrRoot(joined) == IF joined = <<>> THEN <<"/">> ELSE joined

ResolvePath(segments) ==
    PathOrRoot(Join(TrailingDot(segments, ResolveSegments(segments, <<>>)), "/"))

JoinParts(b, l) ==
    IF l.netloc # "" THEN urlunsplit(l)
    ELSE IF l.path = <<>>
    THEN urlunsplit([netloc |-> b.netloc, path |-> b.path,
                     query |-> IF l.query = <<>> THEN b.query ELSE l.query,
                     fragment |-> l.fragment])
    ELSE urlunsplit([netloc |-> b.netloc,
                     path |-> ResolvePath(MergeSegments(b.path, l.path)),
                     query |-> l.query, fragment |-> l.fragment])

\* urljoin(base, url) for an href without a scheme of its own or with the
\* base's scheme
urljoin(base, url) ==
    IF base = <<>> THEN url
    ELSE IF url = <<>> THEN base
    ELSE JoinParts(urlsplit(base), urlsplit(url))

\* unquote: percent-decoding
unquote(s) ==
    [i \in 1..Len(s) |-> IF s[i] = "%2e" THEN "."
                         ELSE IF s[i] = "%2f" THEN "/" ELSE s[i]]

(***************************************************************************)
(* os.path and fnmatch as used by cli.py (POSIX).                          *)
(***************************************************************************)

\* os.path.join(a, b)
path_join(a, b) ==
    IF Len(b) > 0 /\ b[1] = "/" THEN b
    ELSE IF a = <<>> \/ a[Len(a)] = "/" THEN a \o b
    ELSE a \o <<"/">> \o b

\* the component loop of os.path.normpath
RECURSIVE NormComps(_, _, _)
NormComps(comps, new, isabs) ==
    IF Len(comps) = 0 THEN new
    ELSE LET c == comps[1]
         IN  NormComps(Tail(comps),
                IF c = <<>> \/ c = Dot THEN new
                ELSE IF c # DotDot
                        \/ (~isabs /\ Len(new) = 0)
                        \/ (Len(new) > 0 /\ new[Len(new)] = DotDot)
                     THEN Append(new, c)
                ELSE IF Len(new) > 0 THEN SubSeq(new, 1, Len(new) - 1)
                ELSE new,
                isabs)

\* os.path.normpath(path)
normpath(path) ==
    IF path = <<>> THEN Dot
    ELSE
    LET isabs   == path[1] = "/"
        slashes == IF isabs /\ StartsWith(path, <<"/", "/">>)
                      /\ ~StartsWith(path, <<"/", "/", "/">>)
                   THEN <<"/", "/">>
                   ELSE IF isabs THEN <<"/">> ELSE <<>>
        body    == Join(NormComps(Split(path, "/"), <<>>, isabs), "/")
        out     == slashes \o body
    IN  IF out = <<>> THEN Dot ELSE out

\* s.rstrip("/")
RECURSIVE RStripSlash(_)
RStripSlash(s) ==
    IF Len(s) > 0 /\ s[Len(s)] = "/" THEN RStripSlash(SubSeq(s, 1, Len(s) - 1))
    ELSE s

\* os.path.dirname(p)
dirname(p) ==
    LET i    == LastIndexOf(p, "/")
        head == SubSeq(p, 1, i)
    IN  IF head # <<>> /\ RStripSlash(head) # <<>> THEN RStripSlash(head) ELSE head

\* fnmatch(name, pat): "*" matches any run of characters (slashes
\* included), "?" any single character, anything else itself
RECURSIVE fnmatch(_, _)
fnmatch(name, pat) ==
    IF Len(pat) = 0 THEN Len(name) = 0
    ELSE IF pat[1] = "*"
         THEN fnmatch(name, Tail(pat))
              \/ (Len(name) > 0 /\ fnmatch(Tail(name), pat))
    ELSE IF Len(name) = 0 THEN FALSE
    ELSE IF pat[1] = "?" THEN fnmatch(Tail(name), Tail(pat))
    ELSE pat[1] = name[1] /\ fnmatch(Tail(name), Tail(pat))


(***************************************************************************)
(* Bounds and the environment: command lines and the remote open directory.*)
(***************************************************************************)

\* largest -p/--parallel value explored
MaxParallel == 2

\* -o/--output-dir
OutputDir == <<"/", "o">>

\* -u/--url: the directory with and without its trailing slash
BaseUrls == {<<"H", "/", "d", "/">>, <<"H", "/", "d">>}

\* -e/--exclude: nothing, or the glob "*b"
ExcludeChoices == {<<>>, << <<"*", "b">> >>}

\* hrefs of the listing served for the base directory, in document order
RootLinks ==
    << <<"m">>,
       <<"a">>,
       <<"%2e", "%2e", "/", "x">>,
       <<"s", "/">>,
       <<"/", "d", "2", "/", "x">>,
       <<"%2e", "%2e", "/", "o", "2", "/", "x">> >>

\* hrefs of the listing served for the subdirectory s/
SubLinks == << <<".", ".", "/">>, <<"b">>, <<"#", "f">> >>

NotFound == [status |-> 404, type |-> "none", links |-> <<>>, size |-> 0, clen |-> FALSE]
HtmlPage(links) == [status |-> 200, type |-> "html", links |-> links, size |-> 0, clen |-> FALSE]
File(size, clen) == [status |-> 200, type |-> "file", links |-> <<>>, size |-> size, clen |-> clen]

\* what the server answers for a request URL (the fragment is not sent):
\* status, content type, hrefs of a listing, body size of a file and whether
\* the Content-Length header is present
Site(url) ==
    LET r == urlsplit(url)
        u == urlunsplit([r EXCEPT !.fragment = <<>>])
    IN  IF u \in BaseUrls THEN HtmlPage(RootLinks)
        ELSE IF u = <<"H", "/", "d", "/", "s", "/">> THEN HtmlPage(SubLinks)
        ELSE IF u = <<"H", "/", "d", "/", "a">> THEN File(2, TRUE)
        ELSE IF u = <<"H", "/", "d", "/", "s", "/", "b">> THEN File(1, TRUE)
        ELSE IF u = <<"H", "/", "d", "2", "/", "x">> THEN File(1, FALSE)
        ELSE IF u = <<"H", "/", "d", "/", "%2e", "%2e", "/", "x">> THEN File(1, TRUE)
        ELSE IF u = <<"H", "/", "d", "/", "%2e", "%2e", "/", "o", "2", "/", "x">> THEN File(1, TRUE)
        ELSE NotFound

\* local files present before the first run: none, or a file a that is
\* shorter than, as long as, or longer than the remote a
EmptyFs == [p \in {} |-> 0]
InitialFiles == {EmptyFs} \cup {[p \in {<<"/", "o", "/", "a">>} |-> n] : n \in {1, 2, 3}}

(***************************************************************************)
(* State.                                                                  *)
(***************************************************************************)

VARIABLES
    cfg,       \* parsed arguments and ScrapeConfig
    run,       \* "first" or "second" invocation of the program
    pc,        \* position of the scrape_url coroutine chain
    stack,     \* suspended scrape_url calls, innermost last: [url, links]
    visited,   \* options.visited
    futures,   \* options.futures, by url
    queue,     \* work queue of the ThreadPoolExecutor: [kind, url]
    fetch,     \* the traversal's run_in_executor call
    task,      \* submitted stream_to_file calls, by url
    sem,       \* options.semaphore._value
    waiter,    \* the future the coroutine waits on inside acquire()
    fs,        \* local files: path -> size
    fs0,       \* local files present when this run started
    dirs,      \* local directories created by makedirs
    open,      \* urls whose traversal response g is not closed
    requests,  \* HTTP requests issued in this run
    log,       \* outcomes logged by the sweep in this run
    discovered,\* every link_dest computed from a parsed page in this run
    prev,      \* urls whose download the first run reported as success
    exited     \* the process has left main()

vars == <<cfg, run, pc, stack, visited, futures, queue, fetch, task, sem,
          waiter, fs, fs0, dirs, open, requests, log, discovered, prev, exited>>

NoFetch == [state |-> "idle", url |-> <<>>, result |-> "none"]
NoTask == [u \in {} |-> 0]

\* the state main() builds before ensure_future(scrape_url(base_url, config))
Fresh(c) ==
    /\ pc = "enter"
    /\ stack = << [url |-> c.base_url, links |-> <<>>] >>
    /\ visited = <<>>
    /\ futures = <<>>
    /\ queue = <<>>
    /\ fetch = NoFetch
    /\ task = NoTask
    /\ sem = c.parallel
    /\ waiter = "none"
    /\ open = {}
    /\ requests = {}
    /\ log = {}
    /\ discovered = {}
    /\ exited = FALSE

Init ==
    /\ cfg \in [output   : {normpath(OutputDir)},
                base_url : {clean_url(u) : u \in BaseUrls},
                parallel : 1..MaxParallel,
                exclude  : ExcludeChoices,
                clobber  : BOOLEAN]
    /\ run = "first"
    /\ fs \in InitialFiles
    /\ fs0 = fs
    /\ dirs = {}
    /\ prev = {}
    /\ Fresh(cfg)


(***************************************************************************)
(* Expressions of scrape_url and stream_to_file.                           *)
(***************************************************************************)

\* the hrefs of a page taken last anchor first
get_linksReversed(url) ==
    [i \in 1..Len(Site(url).links) |->
        Site(url).links[Len(Site(url).links) + 1 - i]]

\* lines 48-57: the hrefs of the anchors of a page, in document order
get_links(url) == Site(url).links

\* line 114
link_dest(url, link) == clean_url(urljoin(url, link))

\* the scope check left out: every link is followed
InScopeNoCheck(dest) == TRUE

\* line 115: the link stays inside base_url
InScope(dest) == StartsWith(dest, cfg.base_url)

\* the visited check left out: every in-scope link is followed again
SeenNever(dest) == FALSE

\* line 118: link_dest in options.visited
Seen(dest) == \E i \in 1..Len(visited) : visited[i] = dest

\* line 126
url_suffix(url) == unquote(DropFirst(url, Len(cfg.base_url)))

\* line 127
local_path(url) == normpath(path_join(cfg.output, url_suffix(url)))

\* the exclude loop left out: no leaf is skipped
ExcludedNoCheck(url) == FALSE

\* lines 128-131: some exclude pattern matches the suffix
Excluded(url) ==
    \E i \in 1..Len(cfg.exclude) : fnmatch(url_suffix(url), cfg.exclude[i])

\* line 61: the directory traversal check of stream_to_file
GuardOk(path) == StartsWith(path, cfg.output)

\* os.makedirs(d, exist_ok=True): d and its missing ancestors
MakeDirs(d) ==
    {SubSeq(d, 1, i) : i \in {j \in 1..Len(d) :
                                d[j] # "/" /\ (j = Len(d) \/ d[j + 1] = "/")}}

\* a stream_to_file call that a worker thread is inside of
Executing(u) == task[u].state \in {"running", "finally", "releasing", "closing"}

\* worker threads that are occupied
Busy ==
    (IF fetch.state = "running" THEN 1 ELSE 0)
    + Cardinality({u \in DOMAIN task : Executing(u)})

\* an executor that starts a thread for every call
WorkerAlwaysAvailable == TRUE

\* ThreadPoolExecutor(max_workers=args.parallel): a thread is free
WorkerAvailable == Busy < cfg.parallel

Top == stack[Len(stack)]
Pop == SubSeq(stack, 1, Len(stack) - 1)

\* return from the innermost scrape_url: the caller continues its link loop
\* (line 121), or the top-level task completes
Return ==
    /\ stack' = Pop
    /\ pc' = IF Len(stack) = 1 THEN "finished" ELSE "links"

(***************************************************************************)
(* The traversal coroutine (scrape_url), on the event loop thread.         *)
(***************************************************************************)

\* lines 102-104: record the url and hand stream_url to the default executor
Enter ==
    /\ pc = "enter"
    /\ visited' = Append(visited, Top.url)
    /\ queue' = Append(queue, [kind |-> "fetch", url |-> Top.url])
    /\ fetch' = [state |-> "queued", url |-> Top.url, result |-> "none"]
    /\ pc' = "await_fetch"
    /\ UNCHANGED <<cfg, run, stack, futures, task, sem, waiter, fs, fs0, dirs,
                   open, requests, log, discovered, prev, exited>>

\* a worker thread takes the stream_url call and sends the GET (line 45)
FetchStart ==
    /\ queue # <<>>
    /\ Head(queue).kind = "fetch"
    /\ WorkerAvailable
    /\ queue' = Tail(queue)
    /\ fetch' = [fetch EXCEPT !.state = "running"]
    /\ requests' = requests \cup {[url |-> fetch.url, kind |-> "get", range |-> <<>>]}
    /\ UNCHANGED <<cfg, run, pc, stack, visited, futures, task, sem, waiter,
                   fs, fs0, dirs, open, log, discovered, prev, exited>>

\* http.get returns a response, or raises a connection error
FetchFinish ==
    /\ fetch.state = "running"
    /\ \E r \in {"response", "connerr"} :
          /\ fetch' = [fetch EXCEPT !.state = "done", !.result = r]
          /\ open' = IF r = "response" THEN open \cup {fetch.url} ELSE open
    /\ UNCHANGED <<cfg, run, pc, stack, visited, futures, queue, task, sem,
                   waiter, fs, fs0, dirs, requests, log, discovered, prev, exited>>

\* lines 104-131: the await completes; status check, content type check,
\* and for a leaf the exclude check
AfterFetch ==
    /\ pc = "await_fetch"
    /\ fetch.state = "done"
    /\ fetch' = NoFetch
    /\ IF fetch.result = "connerr"
       THEN \* the exception leaves every suspended scrape_url call
            /\ pc' = "crashed"
            /\ stack' = <<>>
       ELSE IF Site(Top.url).status # 200
       THEN Return
       ELSE IF Site(Top.url).type = "html"
       THEN /\ pc' = "links"
            /\ stack' = [stack EXCEPT ![Len(stack)].links = get_links(Top.url)]
       ELSE IF Excluded(Top.url)
       THEN Return
       ELSE /\ pc' = "acquire"
            /\ stack' = stack
    /\ UNCHANGED <<cfg, run, visited, futures, queue, task, sem, waiter, fs, fs0,
                   dirs, open, requests, log, discovered, prev, exited>>

\* lines 113-122: one iteration of the link loop, or g.close() after it
Links ==
    /\ pc = "links"
    /\ IF Top.links = <<>>
       THEN /\ open' = open \ {Top.url}
            /\ Return
            /\ UNCHANGED discovered
       ELSE LET dest == link_dest(Top.url, Head(Top.links))
                rest == [stack EXCEPT ![Len(stack)].links = Tail(Top.links)]
            IN  /\ discovered' = discovered \cup {dest}
                /\ open' = open
                /\ IF InScope(dest) /\ ~Seen(dest)
                   THEN /\ stack' = Append(rest, [url |-> dest, links |-> <<>>])
                        /\ pc' = "enter"
                   ELSE /\ stack' = rest
                        /\ pc' = "links"
    /\ UNCHANGED <<cfg, run, visited, futures, queue, fetch, task, sem,
                   waiter, fs, fs0, dirs, requests, log, prev, exited>>

\* line 132: semaphore.acquire() takes a permit, or registers a waiter
Acquire ==
    /\ pc = "acquire"
    /\ IF sem > 0
       THEN /\ sem' = sem - 1
            /\ pc' = "submit"
            /\ waiter' = waiter
       ELSE /\ waiter' = "pending"
            /\ pc' = "acquire_wait"
            /\ sem' = sem
    /\ UNCHANGED <<cfg, run, stack, visited, futures, queue, fetch, task, fs, fs0,
                   dirs, open, requests, log, discovered, prev, exited>>

\* line 132: the waiter's callback runs and acquire() takes the permit
AcquireWake ==
    /\ pc = "acquire_wait"
    /\ waiter = "woken"
    /\ sem' = sem - 1
    /\ waiter' = "none"
    /\ pc' = "submit"
    /\ UNCHANGED <<cfg, run, stack, visited, futures, queue, fetch, task, fs, fs0,
                   dirs, open, requests, log, discovered, prev, exited>>

\* line 133: executor.submit(stream_to_file, g, url, options, local_path)
Submit ==
    /\ pc = "submit"
    /\ task' = task @@ (Top.url :> [state |-> "queued",
                                    path |-> local_path(Top.url),
                                    outcome |-> "none", err |-> "none",
                                    r |-> 0, existed |-> FALSE, old |-> 0,
                                    ranged |-> FALSE, releases |-> 0])
    /\ futures' = Append(futures, Top.url)
    /\ queue' = Append(queue, [kind |-> "download", url |-> Top.url])
    /\ pc' = "sweep"
    /\ UNCHANGED <<cfg, run, stack, visited, fetch, sem, waiter, fs, fs0, dirs,
                   open, requests, log, discovered, prev, exited>>

\* lines 135-146: purge the futures that are done and log their outcome
Sweep ==
    /\ pc = "sweep"
    /\ LET done == {i \in 1..Len(futures) : task[futures[i]].state = "done"}
       IN  /\ futures' = SelectSeq(futures, LAMBDA u : task[u].state # "done")
           /\ log' = log \cup {[url |-> futures[i], kind |-> task[futures[i]].outcome] : i \in done}
    /\ Return
    /\ UNCHANGED <<cfg, run, visited, queue, fetch, task, sem, waiter, fs, fs0,
                   dirs, open, requests, discovered, prev, exited>>


(***************************************************************************)
(* stream_to_file, on a worker thread of the executor.                     *)
(***************************************************************************)

\* lines 84-86: open(local_path, "wb") truncates the file, then the body of
\* n bytes is written; an I/O error may end the loop after k < n bytes
Streamed(n) ==
    {[write |-> TRUE, size |-> n, outcome |-> "ok", err |-> "none"]}
    \cup {[write |-> TRUE, size |-> k, outcome |-> "fail", err |-> "io"] : k \in 0..(n - 1)}

\* what the server may answer to "Range: bytes=fsize-remote_size": the
\* remaining bytes (206), the whole body (200, header ignored), or an
\* error status
RangeAnswers(fsize, remote_size) ==
    IF fsize < remote_size THEN {"partial", "full", "error"} ELSE {"full", "error"}

\* the results of the try block without the size comparison of line 72: a
\* Range request is sent for every existing file
ResumedNoSizeCheck(u, fsize) ==
    IF ~Site(u).clen
    THEN {[write |-> FALSE, size |-> 0, outcome |-> "fail", err |-> "nolength", ranged |-> FALSE]}
    ELSE UNION {
           IF a = "error"
           THEN {[write |-> FALSE, size |-> 0, outcome |-> "fail", err |-> "range", ranged |-> TRUE]}
           ELSE {e @@ [ranged |-> TRUE] :
                    e \in Streamed(IF a = "partial" THEN Site(u).size - fsize
                                   ELSE Site(u).size)}
           : a \in RangeAnswers(fsize, Site(u).size)}

\* lines 67-86: the possible results of the try block for url u, whose
\* local path already exists with size fsize
Resumed(u, fsize) ==
    LET remote_size == Site(u).size
    IN  IF ~Site(u).clen
        THEN \* int(None)
             {[write |-> FALSE, size |-> 0, outcome |-> "fail", err |-> "nolength", ranged |-> FALSE]}
        ELSE IF fsize = remote_size
        THEN {[write |-> FALSE, size |-> 0, outcome |-> "already", err |-> "none", ranged |-> FALSE]}
        ELSE UNION {
               IF a = "error"
               THEN {[write |-> FALSE, size |-> 0, outcome |-> "fail", err |-> "range", ranged |-> TRUE]}
               ELSE {e @@ [ranged |-> TRUE] :
                        e \in Streamed(IF a = "partial" THEN remote_size - fsize
                                       ELSE remote_size)}
               : a \in RangeAnswers(fsize, remote_size)}

\* lines 60-62: a worker thread takes the call; the traversal check raises
\* before the try block, so the finally clause does not run
DlStart(u) ==
    /\ queue # <<>>
    /\ Head(queue) = [kind |-> "download", url |-> u]
    /\ WorkerAvailable
    /\ queue' = Tail(queue)
    /\ task' = IF GuardOk(task[u].path)
               THEN [task EXCEPT ![u].state = "running"]
               ELSE [task EXCEPT ![u].state = "done", ![u].outcome = "fail",
                                 ![u].err = "traversal"]
    /\ UNCHANGED <<cfg, run, pc, stack, visited, futures, fetch, sem, waiter,
                   fs, fs0, dirs, open, requests, log, discovered, prev, exited>>

\* lines 64-86: the try block, up to the finally clause
DlBody(u) ==
    /\ task[u].state = "running"
    /\ LET path == task[u].path
       IN  /\ dirs' = dirs \cup MakeDirs(dirname(path))
           /\ IF path \in DOMAIN fs
              THEN /\ open' = open \ {u}
                   /\ \E e \in Resumed(u, fs[path]) :
                         /\ task' = [task EXCEPT ![u].state = "finally",
                                       ![u].outcome = e.outcome, ![u].err = e.err,
                                       ![u].existed = TRUE, ![u].old = fs[path],
                                       ![u].ranged = e.ranged]
                         /\ fs' = IF e.write THEN [fs EXCEPT ![path] = e.size] ELSE fs
                         /\ requests' = IF e.ranged
                                        THEN requests \cup {[url |-> u, kind |-> "range",
                                                 range |-> <<fs[path], Site(u).size>>]}
                                        ELSE requests
              ELSE /\ open' = open
                   /\ requests' = requests
                   /\ \E e \in Streamed(Site(u).size) :
                         /\ task' = [task EXCEPT ![u].state = "finally",
                                       ![u].outcome = e.outcome, ![u].err = e.err]
                         /\ fs' = (path :> e.size) @@ fs
    /\ UNCHANGED <<cfg, run, pc, stack, visited, futures, queue, fetch, sem,
                   waiter, fs0, log, discovered, prev, exited>>

\* line 88: semaphore.release() reads _value ...
DlReleaseRead(u) ==
    /\ task[u].state = "finally"
    /\ task' = [task EXCEPT ![u].state = "releasing", ![u].r = sem]
    /\ UNCHANGED <<cfg, run, pc, stack, visited, futures, queue, fetch, sem,
                   waiter, fs, fs0, dirs, open, requests, log, discovered, prev, exited>>

\* ... and stores _value + 1, then completes the pending waiter.  The call
\* is made off the event loop thread: the waiter's callback is either
\* scheduled, or the loop refuses it and release() raises in the worker
DlReleaseWrite(u) ==
    /\ task[u].state = "releasing"
    /\ sem' = task[u].r + 1
    /\ IF waiter = "pending"
       THEN \/ /\ waiter' = "woken"
               /\ task' = [task EXCEPT ![u].state = "closing", ![u].r = 0,
                                       ![u].releases = @ + 1]
            \/ /\ waiter' = "lost"
               /\ task' = [task EXCEPT ![u].state = "done", ![u].outcome = "fail",
                                       ![u].err = "thread", ![u].r = 0,
                                       ![u].releases = @ + 1]
       ELSE /\ waiter' = waiter
            /\ task' = [task EXCEPT ![u].state = "closing", ![u].r = 0,
                                       ![u].releases = @ + 1]
    /\ UNCHANGED <<cfg, run, pc, stack, visited, futures, queue, fetch, fs, fs0,
                   dirs, open, requests, log, discovered, prev, exited>>

\* lines 89-93: response.close() and return
DlFinish(u) ==
    /\ task[u].state = "closing"
    /\ task' = [task EXCEPT ![u].state = "done"]
    /\ open' = open \ {u}
    /\ UNCHANGED <<cfg, run, pc, stack, visited, futures, queue, fetch, sem,
                   waiter, fs, fs0, dirs, requests, log, discovered, prev, exited>>

(***************************************************************************)
(* main().                                                                 *)
(***************************************************************************)

\* lines 171-193: run_until_complete returns or raises, and leaving the
\* ThreadPoolExecutor block waits for the submitted calls
Exit ==
    /\ pc \in {"finished", "crashed"}
    /\ ~exited
    /\ queue = <<>>
    /\ Busy = 0
    /\ exited' = TRUE
    /\ UNCHANGED <<cfg, run, pc, stack, visited, futures, queue, fetch, task,
                   sem, waiter, fs, fs0, dirs, open, requests, log, discovered, prev>>

\* the program is started again with the same command line, after a first
\* run whose traversal completed and in which neither the disk nor the
\* server failed a download
Rerun ==
    /\ exited
    /\ pc = "finished"
    /\ run = "first"
    /\ \A u \in DOMAIN task : task[u].err \notin {"io", "range"}
    /\ run' = "second"
    /\ pc' = "enter"
    /\ stack' = << [url |-> cfg.base_url, links |-> <<>>] >>
    /\ visited' = <<>>
    /\ futures' = <<>>
    /\ queue' = <<>>
    /\ fetch' = NoFetch
    /\ task' = NoTask
    /\ sem' = cfg.parallel
    /\ waiter' = "none"
    /\ open' = {}
    /\ requests' = {}
    /\ log' = {}
    /\ discovered' = {}
    /\ prev' = {u \in DOMAIN task : task[u].outcome \in {"ok", "already"}}
    /\ exited' = FALSE
    /\ fs0' = fs
    /\ UNCHANGED <<cfg, fs, dirs>>

Next ==
    \/ Enter
    \/ FetchStart
    \/ FetchFinish
    \/ AfterFetch
    \/ Links
    \/ Acquire
    \/ AcquireWake
    \/ Submit
    \/ Sweep
    \/ \E u \in DOMAIN task : DlStart(u)
    \/ \E u \in DOMAIN task : DlBody(u)
    \/ \E u \in DOMAIN task : DlReleaseRead(u)
    \/ \E u \in DOMAIN task : DlReleaseWrite(u)
    \/ \E u \in DOMAIN task : DlFinish(u)
    \/ Exit
    \/ Rerun

Spec == Init /\ [][Next]_vars


(***************************************************************************)
(* Properties.                                                             *)
(***************************************************************************)

\* stream_to_file calls that have left the try block
PastBody(u) == task[u].state \in {"finally", "releasing", "closing", "done"}

\* p is the directory root or lies inside it
Inside(p, root) == p = root \/ StartsWith(p, root \o <<"/">>)

\* the urls the traversal has requested in this run
Fetched == {r.url : r \in {q \in requests : q.kind = "get"}}

\* the urls for which a Range request was sent in this run
Ranged == {r.url : r \in {q \in requests : q.kind = "range"}}

\* the urls with a logged outcome in this run
Logged == {l.url : l \in log}

\* C1: at no time are more than `parallel` stream_to_file calls executing.
ConcurrencyBound ==
    Cardinality({u \in DOMAIN task : Executing(u)}) <= cfg.parallel

\* C1 witness: with a parallelism above one, as many downloads are executing
\* at once as the parallelism allows.
ConcurrencyBoundWitness ==
    /\ cfg.parallel > 1
    /\ Cardinality({u \in DOMAIN task : Executing(u)}) = cfg.parallel

\* C2 (as claimed): every dispatched download that has ended released the
\* permit exactly once, whatever its outcome.
ReleasedExactlyOnce ==
    \A u \in DOMAIN task : task[u].state = "done" => task[u].releases = 1

\* C3 (as claimed): a resumed download (local size S < remote size R) whose
\* range request succeeded and whose body was streamed completely leaves a
\* local file of size exactly R.
ResumeCorrectness ==
    \A u \in DOMAIN task :
        (/\ PastBody(u)
         /\ task[u].existed
         /\ task[u].old < Site(u).size
         /\ task[u].ranged
         /\ task[u].outcome = "ok")
        => fs[task[u].path] = Site(u).size

\* C4 (as claimed): a leaf whose local path is not inside the output root
\* ends as a Failure without running, and nothing is created outside the
\* output root.
PathEscapeRejected ==
    /\ \A u \in DOMAIN task :
          ~Inside(task[u].path, cfg.output)
          => \/ task[u].state = "queued"
             \/ task[u].state = "done" /\ task[u].outcome = "fail"
    /\ \A p \in DOMAIN fs : Inside(p, cfg.output)
    /\ \A d \in dirs : Inside(d, cfg.output)

\* C5: a discovered link whose canonical resolved form does not start with
\* the base url is never requested.
ScopeContainment ==
    \A d \in discovered :
        ~StartsWith(d, cfg.base_url) => d \notin Fetched \cup Ranged

\* C5 witness: the crawl has ended after discovering a link outside the base
\* url and one inside it that was requested.
ScopeContainmentWitness ==
    /\ exited
    /\ \E d \in discovered : ~StartsWith(d, cfg.base_url)
    /\ \E d \in discovered : StartsWith(d, cfg.base_url) /\ d \in Fetched

\* the suffix of a visited leaf matches some exclude pattern
MatchesExclude(u) ==
    /\ \E i \in 1..Len(cfg.exclude) :
          fnmatch(unquote(DropFirst(u, Len(cfg.base_url))), cfg.exclude[i])
    /\ Site(u).status = 200
    /\ Site(u).type = "file"

\* C6 (as claimed): no HTTP request is issued for a leaf whose suffix matches
\* an exclude pattern, and it has no logged outcome.
ExcludedNeverRequested ==
    \A i \in 1..Len(visited) :
        MatchesExclude(visited[i])
        => visited[i] \notin Fetched \cup Ranged \cup Logged

\* C6 (amended): a leaf whose suffix matches an exclude pattern is never
\* dispatched to stream_to_file, gets no Range request and no logged outcome;
\* only the traversal's GET is issued for it.
ExcludedNeverDownloaded ==
    \A i \in 1..Len(visited) :
        MatchesExclude(visited[i])
        => /\ visited[i] \notin DOMAIN task
           /\ visited[i] \notin Ranged \cup Logged
           /\ \A j \in 1..Len(futures) : futures[j] # visited[i]

\* C6 witness: the traversal has fetched a leaf matching an exclude pattern
\* and the process has exited.
ExcludedWitness ==
    /\ exited
    /\ \E i \in 1..Len(visited) :
          MatchesExclude(visited[i]) /\ visited[i] \in Fetched

\* C7 (as claimed, for the files served with a Content-Length that the first
\* run reported as downloaded): in the second run every such download ends
\* AlreadyComplete, without a Range request and with the local file left as
\* it was.
Idempotence ==
    run = "second" =>
        \A u \in DOMAIN task \cap prev :
            (PastBody(u) /\ Site(u).clen)
            => /\ task[u].outcome = "already"
               /\ ~task[u].ranged
               /\ fs[task[u].path] = task[u].old

\* C8 (as claimed): with clobber set an existing local file is overwritten
\* with the full body, without the AlreadyComplete outcome or a Range
\* request.
ClobberOverwrites ==
    cfg.clobber =>
        \A u \in DOMAIN task :
            (PastBody(u) /\ task[u].existed)
            => /\ task[u].outcome # "already"
               /\ ~task[u].ranged

\* C9 (as claimed): the in-flight registry is empty when the top-level task
\* completes, every dispatched download having been logged.
AllReconciled ==
    pc = "finished" => futures = <<>> /\ DOMAIN task \subseteq Logged

\* C10 (as claimed): a transport error on a traversal fetch never propagates
\* out of the top-level traversal.
TransportErrorContained == pc # "crashed"

\* the downloads whose stream_to_file call raised an error of its own
\* (guard rejection, missing Content-Length, failed Range request, disk error)
FailedDownloads ==
    {u \in DOMAIN task : /\ task[u].state = "done"
                         /\ task[u].err \in {"traversal", "nolength", "range", "io"}}

\* the traversal waits for a permit while no submitted download is left to
\* release one: the leaf it holds is never downloaded
LeafStarved ==
    /\ pc = "acquire_wait"
    /\ waiter = "pending"
    /\ \A v \in DOMAIN task : task[v].state = "done"

\* C11 (as claimed): an error raised inside a download is confined to that
\* file: the sweep logs it as a failure of that url only, and it does not
\* keep any other leaf from being downloaded.
DownloadErrorConfined ==
    /\ \A l \in log : l.url \in DOMAIN task /\ l.kind = task[l.url].outcome
    /\ \A u \in FailedDownloads : task[u].outcome = "fail"
    /\ FailedDownloads # {} => ~LeafStarved

\* the base URL as a directory: with its trailing slash
BaseDir ==
    IF cfg.base_url[Len(cfg.base_url)] = "/" THEN cfg.base_url
    ELSE cfg.base_url \o <<"/">>

\* url is the base URL or lies in the directory subtree below it
InSubtree(url) == url = cfg.base_url \/ StartsWith(url, BaseDir)

\* the link targets of the pages in S
LinkTargets(S) ==
    UNION {{link_dest(u, Site(u).links[i]) : i \in 1..Len(Site(u).links)} : u \in S}

\* the urls of the subtree reachable from S by following links
RECURSIVE Reachable(_)
Reachable(S) ==
    IF {d \in LinkTargets(S) : InSubtree(d)} \subseteq S THEN S
    ELSE Reachable(S \cup {d \in LinkTargets(S) : InSubtree(d)})

\* the local paths the mirror of the remote subtree consists of
MirrorTargets ==
    {normpath(path_join(cfg.output, unquote(DropFirst(u, Len(cfg.base_url))))) :
        u \in {v \in Reachable({cfg.base_url}) :
                  /\ Site(v).status = 200
                  /\ Site(v).type = "file"
                  /\ ~MatchesExclude(v)}}

\* a first run over an empty output root has exited after a traversal in
\* which no request and no write failed
MirrorRunDone ==
    /\ exited
    /\ pc = "finished"
    /\ run = "first"
    /\ fs0 = EmptyFs
    /\ \A u \in DOMAIN task : task[u].err \notin {"io", "range"}

\* C12 (as claimed): after such a run the local files are exactly the output
\* root joined with the decoded suffix of every reachable in-scope non-HTML
\* url whose suffix matches no exclude pattern.
MirrorExact == MirrorRunDone => DOMAIN fs = MirrorTargets

\* every submitted download has returned, so no release() is still to come
NoReleaseToCome == \A v \in DOMAIN task : task[v].state = "done"

\* C13 (as claimed): every request and every download completing, the crawl
\* terminates; in particular the traversal is never left waiting for a permit
\* that no download will release.
NeverBlockedForever ==
    ~(pc = "acquire_wait" /\ waiter \in {"pending", "lost"} /\ NoReleaseToCome)

\* s is an initial part of t
IsPrefix(s, t) == Len(s) <= Len(t) /\ SubSeq(t, 1, Len(s)) = s

\* C14: within one run the visited list only grows at its end, and a step
\* that sends the GET of a traversal fetch sends it for a url that is already
\* in the visited list and for which no GET was sent before in this run.
VisitedOnce ==
    [][/\ run' = run => IsPrefix(visited, visited')
       /\ (fetch.state = "queued" /\ fetch'.state = "running")
          => /\ \E i \in 1..Len(visited) : visited[i] = fetch.url
             /\ fetch.url \notin Fetched]_vars

\* a page linking back to the already fetched base url has been parsed
VisitedOnceWitness ==
    /\ cfg.base_url \in discovered
    /\ cfg.base_url \in Fetched
    /\ Len(visited) > 3

\* C15 (as claimed): whatever base url is given, with or without a trailing
\* slash, every url the traversal requests is the base url or lies in the
\* directory subtree below it.
SubtreeContainment == \A u \in Fetched : InSubtree(u)

\* C16 (as claimed): downloads do not occupy the workers that serve the
\* traversal: the fetch of an HTML page that is next in line can always be
\* started, however many downloads are in flight.
ExplorationNotStalled ==
    (/\ queue # <<>>
     /\ Head(queue).kind = "fetch"
     /\ Site(Head(queue).url).type = "html") => WorkerAvailable

\* the File Writer found the local file of u with the size the server
\* announces in Content-Length
FoundComplete(u) ==
    /\ PastBody(u)
    /\ task[u].existed
    /\ Site(u).clen
    /\ task[u].old = Site(u).size

RECURSIVE Walk(_, _, _), WalkLinks(_, _, _, _)
Walk(base, url, vis) ==
    IF Site(url).status = 200 /\ Site(url).type = "html"
    THEN WalkLinks(base, url, Site(url).links, Append(vis, url))
    ELSE Append(vis, url)

WalkLinks(base, url, links, vis) ==
    IF links = <<>> THEN vis
    ELSE WalkLinks(base, url, Tail(links),
            IF /\ StartsWith(link_dest(url, Head(links)), base)
               /\ \A i \in 1..Len(vis) : vis[i] # link_dest(url, Head(links))
            THEN Walk(base, link_dest(url, Head(links)), vis)
            ELSE vis)

\* the walk from each base url
WalkOrder == [b \in {clean_url(u) : u \in BaseUrls} |-> Walk(b, b, <<>>)]

\* the urls of the walk from base b that are to be downloaded under the
\* exclude patterns e: the files whose decoded suffix matches none of them
WalkDownloads ==
    [b \in {clean_url(u) : u \in BaseUrls}, e \in ExcludeChoices |->
        {u \in {WalkOrder[b][i] : i \in 1..Len(WalkOrder[b])} :
            /\ Site(u).status = 200
            /\ Site(u).type = "file"
            /\ \A k \in 1..Len(e) : ~fnmatch(unquote(DropFirst(u, Len(b))), e[k])}]

\* the traversal fetches that are queued or running
OutstandingFetches ==
    Cardinality({i \in 1..Len(queue) : queue[i].kind = "fetch"})
        + (IF fetch.state = "running" THEN 1 ELSE 0)

\* C18: the urls are entered in the order of a depth-first walk in document
\* order (the whole subtree behind a link before the next link of the page),
\* a leaf that is to be downloaded is submitted before the next url is
\* entered, and at most one traversal fetch is outstanding.
DepthFirstSequential ==
    /\ IsPrefix(visited, WalkOrder[cfg.base_url])
    /\ pc = "finished" => visited = WalkOrder[cfg.base_url]
    /\ \A i \in 1..(Len(visited) - 1) :
          visited[i] \in WalkDownloads[cfg.base_url, cfg.exclude]
          => visited[i] \in DOMAIN task
    /\ OutstandingFetches <= 1

\* the traversal has come back from the listing s/ and entered a later link
\* of the base listing
DepthFirstWitness ==
    \E i \in 1..Len(visited) : \E j \in (i + 1)..Len(visited) :
        /\ Site(visited[i]).type = "html"
        /\ visited[i] # cfg.base_url
        /\ \E k \in 1..Len(RootLinks) :
              visited[j] = link_dest(cfg.base_url, RootLinks[k])
        /\ fetch.url = visited[j]
        /\ fetch.state = "running"

\* url without its fragment
StripFragment(url) == urlunsplit([urlsplit(url) EXCEPT !.fragment = <<>>])

\* C19 (as claimed): the canonical url of a link carries no fragment, so two
\* links that differ only in their fragment are one entry of the visited
\* list and the resource is requested at most once in a run.
FragmentsCanonicalised ==
    /\ \A i \in 1..Len(visited) : StripFragment(visited[i]) = visited[i]
    /\ \A u \in Fetched : \A v \in Fetched :
          StripFragment(u) = StripFragment(v) => u = v

\* C20 (as claimed): every response obtained by a traversal fetch has been
\* closed when the crawl has finished and the process leaves main().
HandlesClosed == (exited /\ pc = "finished") => open = {}

====
